---- MODULE Spec2Model ----
(***************************************************************************)
(* A model of the OBJ ingestion pipeline of wobj: the statement loop of    *)
(* parse_obj (src/src/obj/parser.rs), the face decoder parse_face with its *)
(* point-tuple grammar and index resolution, and the submesh accumulator.  *)
(*                                                                         *)
(* One action is one iteration of the `while let Ok(key) = keyword(input)` *)
(* loop: the keyword's handler followed by to_next_line.  The text of a    *)
(* statement is modelled by its lexemes: a face line is the sequence of    *)
(* its space-separated tokens, each token a sequence of lexemes (a decimal *)
(* integer, the byte '/', or a byte that is neither).  No point parser     *)
(* consumes a space, so parsing the line token by token is exactly what    *)
(* `separated(3.., parse_face_point, ' ')` does on the bytes.              *)
(***************************************************************************)
EXTENDS Integers, Sequences, FiniteSets, TLC

\* ------------------------------------------------------------------ bounds
\* Largest magnitude of an index written in a face statement.
MaxIdx == 2
\* Largest length of an attribute sequence drawn by InitFace.
MaxAttr == 2
\* Largest number of tokens on a face line.
MaxPoints == 4
\* Largest number of statements of one input (Spec).
MaxStmts == 4
\* Number of statements after the drawn prefix (SpecIdx).
MaxTail == 2

\* ------------------------------------------------------------ Option<T>
\* Option<T> is a sequence of length at most one.
None == <<>>
Some(x) == <<x>>

\* ------------------------------------------------------------- lexemes
I(i) == [k |-> "int", i |-> i]
Slash == [k |-> "/", i |-> 0]
Junk == [k |-> "e", i |-> 0]

Ok(val, rest) == [ok |-> TRUE, val |-> val, rest |-> rest]
Err == [ok |-> FALSE, val |-> None, rest |-> <<>>]

\* ------------------------------------------------- obj/parser.rs: faces
\* dec_int.verify_map(NonZero::new): a decimal integer that is not zero.
parse_index(input) ==
    IF input # <<>> /\ input[1].k = "int" /\ input[1].i # 0
    THEN Ok(input[1].i, Tail(input))
    ELSE Err

\* opt(preceded('/', parse_index)): on failure nothing is consumed.
opt_texture(input) ==
    IF input # <<>> /\ input[1] = Slash /\ parse_index(Tail(input)).ok
    THEN Ok(Some(parse_index(Tail(input)).val), parse_index(Tail(input)).rest)
    ELSE Ok(None, input)

\* opt(preceded(alt(("//", "/")), parse_index)): alt takes "//" when the
\* input starts with it and "/" otherwise; on failure nothing is consumed.
opt_normal(input) ==
    LET after == IF Len(input) >= 2 /\ input[1] = Slash /\ input[2] = Slash
                 THEN Ok(None, Tail(Tail(input)))
                 ELSE IF input # <<>> /\ input[1] = Slash
                      THEN Ok(None, Tail(input))
                      ELSE Err
    IN  IF after.ok /\ parse_index(after.rest).ok
        THEN Ok(Some(parse_index(after.rest).val), parse_index(after.rest).rest)
        ELSE Ok(None, input)

\* FacePoint<NonZero<isize>> of one token, and what is left of the token.
parse_face_point(input) ==
    LET pv == parse_index(input)
        pt == opt_texture(pv.rest)
        pn == opt_normal(pt.rest)
    IN  IF pv.ok
        THEN Ok([v |-> pv.val, t |-> pt.val, n |-> pn.val], pn.rest)
        ELSE Err

\* separated(3.., parse_face_point, ' ') from token k on: the points parsed.
\* The list ends before the first token that is no point, and after the
\* first point that leaves bytes of its token unread (the separator ' '
\* does not match there).
RECURSIVE separated_from(_, _)
separated_from(tokens, k) ==
    IF k > Len(tokens) THEN <<>>
    ELSE LET p == parse_face_point(tokens[k])
         IN  IF ~p.ok THEN <<>>
             ELSE IF p.rest # <<>> THEN <<p.val>>
             ELSE <<p.val>> \o separated_from(tokens, k + 1)

separated_min_2(tokens) ==
    LET pts == separated_from(tokens, 1)
    IN  IF Len(pts) >= 2 THEN Ok(pts, <<>>) ELSE Err

separated_3(tokens) ==
    LET pts == separated_from(tokens, 1)
    IN  IF Len(pts) >= 3 THEN Ok(pts, <<>>) ELSE Err

\* usize::saturating_add_signed for the values of the model (no value
\* comes near usize::MAX, so only the lower saturation can happen).
add_signed_unsaturated(len, i) == len + i

saturating_add_signed(len, i) == IF len + i < 0 THEN 0 ELSE len + i

calc_index_off_by_one(i, len) ==
    IF i > 0 THEN i ELSE saturating_add_signed(len, i)

calc_index(i, len) ==
    IF i > 0 THEN i - 1 ELSE saturating_add_signed(len, i)

opt_map_index(o, len) == IF o = None THEN None ELSE Some(calc_index(o[1], len))

\* The closure of parse_face: one raw point to one resolved point.
resolve_point_vertex_len(p, vlen, tlen, nlen) ==
    [v |-> calc_index(p.v, vlen),
     t |-> opt_map_index(p.t, vlen),
     n |-> opt_map_index(p.n, vlen)]

resolve_point(p, vlen, tlen, nlen) ==
    [v |-> calc_index(p.v, vlen),
     t |-> opt_map_index(p.t, tlen),
     n |-> opt_map_index(p.n, nlen)]

\* parse_face(input, obj): the Face, or Err.
parse_face(tokens, vlen, tlen, nlen) ==
    LET points == separated_3(tokens)
    IN  IF points.ok
        THEN Ok([k \in 1..Len(points.val) |->
                    resolve_point(points.val[k], vlen, tlen, nlen)], <<>>)
        ELSE Err

\* ------------------------------------- obj/parser.rs: attribute records
\* (float, ' ', float, ' ', float): the components are the numbers of the
\* line; a line with fewer than three numbers does not parse.
parse_float3(input) ==
    IF Len(input) >= 3 THEN Ok(<<input[1], input[2], input[3]>>, <<>>) ELSE Err

\* (float, opt(preceded(' ', float))): v defaults to 0 when omitted.
parse_vt(input) ==
    IF Len(input) >= 2 THEN Ok(<<input[1], input[2]>>, <<>>)
    ELSE IF Len(input) = 1 THEN Ok(<<input[1], 0>>, <<>>)
    ELSE Err

\* --------------------------------- obj/parser.rs, util.rs: text fields
\* separated(1.., word, ' '): at least one word.
parse_groups(input) == IF Len(input) >= 1 THEN Ok(input, <<>>) ELSE Err

Off == [k |-> "off", i |-> 0]

\* alt((dec_uint, "off".value(0)))
parse_smoothing(input) ==
    IF input.k = "int" /\ input.i >= 0 THEN Ok(input.i, <<>>)
    ELSE IF input = Off THEN Ok(0, <<>>)
    ELSE Err

\* till_line_ending verified to be non-empty.
parse_string(input) == IF input # "" THEN Ok(input, <<>>) ELSE Err

parse_path(input) == parse_string(input)

\* ------------------------------------------------------------- state
VARIABLES
    vertex,     \* Obj.vertex: the position records
    normal,     \* Obj.normal
    texture,    \* Obj.texture
    objects,    \* Obj.objects: the completed submeshes
    current,    \* the accumulator `current` of parse_obj
    status,     \* "parsing" in the loop, "ok" / "err" once parse_obj returned
    last,       \* the statement consumed by the latest iteration
    fuel,       \* statements the input still holds
    faces,      \* the face topology handed to the triangulation entry points
    render,     \* what each triangulation entry point has returned so far
    mtl         \* the state of parse_mtl: materials, the open material, input

vars ==
    <<vertex, normal, texture, objects, current, status, last, fuel, faces, render,
      mtl>>

\* The triangulation entry points of the crate.
Entries == {"mesh", "trimesh", "triangulate"}

\* enum Faces { V, VT, VN, VTN }: the variant and its polygons.
Faces(tag, polys) == [tag |-> tag, polys |-> polys]

\* No call has returned yet.
NoResult ==
    [kind |-> "none", indices |-> <<>>, positions |-> <<>>,
     normals |-> None, uvs |-> None, msg |-> ""]

NoCalls == [e \in Entries |-> NoResult]

\* The material names of the inputs.
MtlNames == {"a", "b"}

\* Material::default(), for the fields the model follows: Ka, illum, d.
DefaultMaterial ==
    [ambient |-> None, illum |-> None, dissolve |-> None, halo |-> FALSE]

\* parse_mtl before its first statement: HashMap::default(), no material
\* being read, and the number of statements the input holds.
MtlStart(n) ==
    [materials |-> [name \in MtlNames |-> None], name |-> None,
     material |-> DefaultMaterial, evicted |-> None, status |-> "parsing",
     last |-> [kind |-> "start", arg |-> <<>>], fuel |-> n]

\* No material library is being parsed.
MtlIdle == [MtlStart(0) EXCEPT !.status = "idle"]

\* Object::default()
DefaultObject ==
    [name |-> None, material |-> None, mtllib |-> None,
     groups |-> <<>>, smoothing |-> 0, faces |-> <<>>]

Stmt(kind, arg) == [kind |-> kind, arg |-> arg]

\* ------------------------------------------------------------- inputs
Idx == (0 - MaxIdx)..MaxIdx
Forms == {"v", "vt", "vn", "vtn"}

\* The token of a point-tuple written in one of the four patterns.
Tok(form, v, t, n) ==
    CASE form = "v"   -> <<I(v)>>
      [] form = "vt"  -> <<I(v), Slash, I(t)>>
      [] form = "vn"  -> <<I(v), Slash, Slash, I(n)>>
      [] form = "vtn" -> <<I(v), Slash, I(t), Slash, I(n)>>

WellFormedTokens ==
    {Tok("v", v, 0, 0) : v \in Idx}
    \cup {Tok("vt", v, t, 0) : v \in Idx, t \in Idx}
    \cup {Tok("vn", v, 0, n) : v \in Idx, n \in Idx}
    \cup {Tok("vtn", v, t, n) : v \in Idx, t \in Idx, n \in Idx}

\* "1/", "1//", "e", "1/e", "/1": tokens that are no point-tuple.
MalformedTokens ==
    {<<I(1), Slash>>, <<I(1), Slash, Slash>>, <<Junk>>,
     <<I(1), Slash, Junk>>, <<Slash, I(1)>>}

AllTokens == WellFormedTokens \cup MalformedTokens

\* Lines of one arbitrary token among tokens `1`, or among tokens `1/1/1`.
ProbeLines ==
    UNION {UNION {{[k \in 1..len |-> IF k = p THEN tok ELSE Tok(g, 1, 1, 1)] :
                      tok \in AllTokens, g \in {"v", "vtn"}} : p \in 1..len} :
           len \in 1..MaxPoints}

\* Triangles of one pattern whose indices are all non-zero.
UniformLines ==
    {[k \in 1..3 |-> Tok(g, s[k], s[k], s[k])] :
        s \in [1..3 -> Idx \ {0}], g \in Forms}

FaceLines == ProbeLines \cup UniformLines

Uni(g, i) == <<Tok(g, i, i, i), Tok(g, i, i, i), Tok(g, i, i, i)>>

\* The face lines of the statement-level specifications.
AsmLines ==
    {Uni(g, 1) : g \in Forms}
    \cup {Uni("vtn", -1),
          <<Tok("vt", 1, 1, 0), Tok("v", 1, 0, 0), Tok("vn", 1, 0, 1)>>,
          <<Tok("v", 1, 0, 0), Tok("v", 1, 0, 0)>>}

Float3Args == {<<1, 1, 1>>, <<1, 1>>}
VtArgs == {<<1>>, <<1, 1>>, <<>>}
Names == {"a", "b"}
StringArgs == Names \cup {""}
PathArgs == {"a.mtl", ""}
GroupArgs == {<<"a">>, <<"a", "b">>, <<>>}
SmoothingArgs == {I(1), Off, Junk}

\* ------------------------------------------- obj/parser.rs: parse_obj
\* let mut obj = Obj::default(); let mut current = Object::default();
Init ==
    /\ vertex = <<>>
    /\ normal = <<>>
    /\ texture = <<>>
    /\ objects = <<>>
    /\ current = DefaultObject
    /\ status = "parsing"
    /\ last = Stmt("start", <<>>)
    /\ fuel = MaxStmts
    /\ faces = Faces("V", <<>>)
    /\ render = NoCalls
    /\ mtl = MtlIdle

\* fn check_finalize(current, obj): the pair after the call.
check_finalize_always(cur, objs) ==
    [objects |-> Append(objs, cur), current |-> [cur EXCEPT !.faces = <<>>]]

check_finalize_keep_faces(cur, objs) ==
    IF cur.faces # <<>>
    THEN [objects |-> Append(objs, cur), current |-> cur]
    ELSE [objects |-> objs, current |-> cur]

check_finalize_front(cur, objs) ==
    IF cur.faces # <<>>
    THEN [objects |-> <<cur>> \o objs, current |-> [cur EXCEPT !.faces = <<>>]]
    ELSE [objects |-> objs, current |-> cur]

check_finalize(cur, objs) ==
    IF cur.faces # <<>>
    THEN [objects |-> Append(objs, cur), current |-> [cur EXCEPT !.faces = <<>>]]
    ELSE [objects |-> objs, current |-> cur]

\* `?` on a failed decode: parse_obj returns the error; obj and current are
\* dropped, so no part of the document survives.
Fail_skips(stmt) ==
    /\ status' = "parsing"
    /\ last' = stmt
    /\ UNCHANGED <<vertex, normal, texture, objects, current>>

Fail(stmt) ==
    /\ status' = "err"
    /\ last' = stmt
    /\ vertex' = <<>> /\ normal' = <<>> /\ texture' = <<>>
    /\ objects' = <<>>
    /\ current' = DefaultObject

Step(stmt) ==
    /\ status' = "parsing"
    /\ last' = stmt

Consume_no_progress ==
    /\ status = "parsing"
    /\ fuel > 0
    /\ UNCHANGED <<fuel, faces, render, mtl>>

Consume ==
    /\ status = "parsing"
    /\ fuel > 0
    /\ fuel' = fuel - 1
    /\ UNCHANGED <<faces, render, mtl>>

\* b"v" => obj.vertex.push(parse_float3(input)?)
StmtV ==
    /\ Consume
    /\ \E arg \in Float3Args :
        LET r == parse_float3(arg)
        IN  IF r.ok
            THEN /\ Step(Stmt("v", arg))
                 /\ vertex' = Append(vertex, r.val)
                 /\ UNCHANGED <<normal, texture, objects, current>>
            ELSE Fail(Stmt("v", arg))

\* b"vn" => obj.normal.push(parse_float3(input)?)
StmtVn_into_vertex ==
    /\ Consume
    /\ \E arg \in Float3Args :
        LET r == parse_float3(arg)
        IN  IF r.ok
            THEN /\ Step(Stmt("vn", arg))
                 /\ vertex' = Append(vertex, r.val)
                 /\ UNCHANGED <<normal, texture, objects, current>>
            ELSE Fail(Stmt("vn", arg))

StmtVn ==
    /\ Consume
    /\ \E arg \in Float3Args :
        LET r == parse_float3(arg)
        IN  IF r.ok
            THEN /\ Step(Stmt("vn", arg))
                 /\ normal' = Append(normal, r.val)
                 /\ UNCHANGED <<vertex, texture, objects, current>>
            ELSE Fail(Stmt("vn", arg))

\* b"vt" => obj.texture.push(parse_vt(input)?)
StmtVt ==
    /\ Consume
    /\ \E arg \in VtArgs :
        LET r == parse_vt(arg)
        IN  IF r.ok
            THEN /\ Step(Stmt("vt", arg))
                 /\ texture' = Append(texture, r.val)
                 /\ UNCHANGED <<vertex, normal, objects, current>>
            ELSE Fail(Stmt("vt", arg))

\* b"f" => current.faces.push(parse_face(input, &obj)?)
StmtF(lines) ==
    /\ Consume
    /\ \E arg \in lines :
        LET r == parse_face(arg, Len(vertex), Len(texture), Len(normal))
        IN  IF r.ok
            THEN /\ Step(Stmt("f", arg))
                 /\ current' = [current EXCEPT !.faces = Append(@, r.val)]
                 /\ UNCHANGED <<vertex, normal, texture, objects>>
            ELSE Fail(Stmt("f", arg))

\* A breaking statement: check_finalize, then the field is set from the
\* decoded argument; a failed decode returns after check_finalize has run.
Breaking_resets(kind, arg, r, field) ==
    LET fin == check_finalize(current, objects)
    IN  IF r.ok
        THEN /\ Step(Stmt(kind, arg))
             /\ objects' = fin.objects
             /\ current' = [DefaultObject EXCEPT ![field] = r.val]
             /\ UNCHANGED <<vertex, normal, texture>>
        ELSE Fail(Stmt(kind, arg))

Breaking(kind, arg, r, field) ==
    LET fin == check_finalize(current, objects)
    IN  IF r.ok
        THEN /\ Step(Stmt(kind, arg))
             /\ objects' = fin.objects
             /\ current' = [fin.current EXCEPT ![field] = r.val]
             /\ UNCHANGED <<vertex, normal, texture>>
        ELSE Fail(Stmt(kind, arg))

\* b"g" => { check_finalize(..); current.groups = parse_groups(input)? }
StmtG ==
    /\ Consume
    /\ \E arg \in GroupArgs : Breaking("g", arg, parse_groups(arg), "groups")

\* b"s" => { check_finalize(..); current.smoothing = parse_smoothing(input)? }
StmtS ==
    /\ Consume
    /\ \E arg \in SmoothingArgs :
        Breaking("s", arg, parse_smoothing(arg), "smoothing")

SomeOf(r) == IF r.ok THEN Ok(Some(r.val), <<>>) ELSE Err

\* b"o" => { check_finalize(..); current.name = Some(parse_string(input)?) }
StmtO ==
    /\ Consume
    /\ \E arg \in StringArgs :
        Breaking("o", arg, SomeOf(parse_string(arg)), "name")

\* b"mtllib" => { check_finalize(..); current.mtllib = Some(parse_path(input)?) }
StmtMtllib ==
    /\ Consume
    /\ \E arg \in PathArgs :
        Breaking("mtllib", arg, SomeOf(parse_path(arg)), "mtllib")

\* b"usemtl" => { check_finalize(..); current.material = Some(parse_string(input)?) }
StmtUsemtl ==
    /\ Consume
    /\ \E arg \in StringArgs :
        Breaking("usemtl", arg, SomeOf(parse_string(arg)), "material")

\* _ => (): a statement with any other keyword.
StmtUnknown_finalizes ==
    /\ Consume
    /\ Step(Stmt("unknown", <<>>))
    /\ objects' = check_finalize(current, objects).objects
    /\ current' = check_finalize(current, objects).current
    /\ UNCHANGED <<vertex, normal, texture>>

StmtUnknown ==
    /\ Consume
    /\ Step(Stmt("unknown", <<>>))
    /\ UNCHANGED <<vertex, normal, texture, objects, current>>

\* --------------------------------------------- obj.rs: comment, keyword
\* A line as keyword() sees it: what it starts with (`#`, a word of one or
\* more alphanumeric bytes, another byte, or nothing before its end), whether
\* a space follows the word, and whether the line has a line ending. A line
\* without one is the last of the input.
Line(head, space, ending) == [head |-> head, space |-> space, ending |-> ending]

Lines ==
    {Line("word", s, e) : s, e \in BOOLEAN}
    \cup {Line(h, FALSE, e) : h \in {"hash", "other"}, e \in BOOLEAN}
    \cup {Line("none", FALSE, TRUE)}

\* One repetition of ('#', till_line_ending, line_ending) consumes the line.
comment(l) == l.head = "hash" /\ l.ending

\* delimited(comment, take_while(1.., is_alphanum), ' ') on a line that
\* comment() left in place.
keyword(l) == l.head = "word" /\ l.space

\* A `#` line with its line ending is consumed by comment() at the head of
\* keyword(); the keyword is then looked for on the next line.
StmtComment ==
    /\ Consume
    /\ \E l \in Lines :
        /\ comment(l)
        /\ Step(Stmt("line", l))
    /\ UNCHANGED <<vertex, normal, texture, objects, current>>

\* keyword() fails on a line of the input: the loop ends and parse_obj
\* returns Ok(obj) with that line unread; Parser::parse, called by
\* Obj::parse, turns unread input into an error.
NoKeyword_truncates ==
    /\ status = "parsing"
    /\ fuel > 0
    /\ \E l \in Lines :
        /\ ~comment(l) /\ ~keyword(l)
        /\ last' = Stmt("line", l)
    /\ status' = "ok"
    /\ objects' = IF current.faces # <<>> THEN Append(objects, current) ELSE objects
    /\ UNCHANGED <<vertex, normal, texture, current, fuel, faces, render, mtl>>

NoKeyword ==
    /\ status = "parsing"
    /\ fuel > 0
    /\ \E l \in Lines :
        /\ ~comment(l) /\ ~keyword(l)
        /\ Fail(Stmt("line", l))
    /\ UNCHANGED <<fuel, faces, render, mtl>>

\* The loop ends when keyword() finds no keyword:
\* if !current.faces.is_empty() { obj.objects.push(current) }; Ok(obj)
EndOfInput_no_flush ==
    /\ status = "parsing"
    /\ status' = "ok"
    /\ last' = Stmt("eof", <<>>)
    /\ UNCHANGED <<objects, vertex, normal, texture, current, fuel, faces, render, mtl>>

EndOfInput_push_always ==
    /\ status = "parsing"
    /\ status' = "ok"
    /\ last' = Stmt("eof", <<>>)
    /\ objects' = Append(objects, current)
    /\ UNCHANGED <<vertex, normal, texture, current, fuel, faces, render, mtl>>

EndOfInput ==
    /\ status = "parsing"
    /\ status' = "ok"
    /\ last' = Stmt("eof", <<>>)
    /\ objects' = IF current.faces # <<>> THEN Append(objects, current) ELSE objects
    /\ UNCHANGED <<vertex, normal, texture, current, fuel, faces, render, mtl>>

Next ==
    \/ StmtV
    \/ StmtVn
    \/ StmtVt
    \/ StmtF(AsmLines)
    \/ StmtG
    \/ StmtS
    \/ StmtO
    \/ StmtMtllib
    \/ StmtUsemtl
    \/ StmtUnknown
    \/ StmtComment
    \/ NoKeyword
    \/ EndOfInput

Spec == Init /\ [][Next]_vars

\* ---------------------------------------------- the face decoder alone
\* The document after a prefix of `v`, `vt` and `vn` statements, before a
\* face statement.
Repeat(x, n) == [k \in 1..n |-> x]

InitAttrs(n) ==
    /\ \E nv \in 0..MaxAttr : vertex = Repeat(<<1, 1, 1>>, nv)
    /\ \E nt \in 0..MaxAttr : texture = Repeat(<<1, 1>>, nt)
    /\ \E nn \in 0..MaxAttr : normal = Repeat(<<1, 1, 1>>, nn)
    /\ objects = <<>>
    /\ current = DefaultObject
    /\ status = "parsing"
    /\ last = Stmt("start", <<>>)
    /\ fuel = n
    /\ faces = Faces("V", <<>>)
    /\ render = NoCalls
    /\ mtl = MtlIdle

InitFace == InitAttrs(1)

NextFace == StmtF(FaceLines)

SpecFace == InitFace /\ [][NextFace]_vars

\* The same prefix followed by MaxTail statements of any kind.
InitIdx == InitAttrs(MaxTail)

SpecIdx == InitIdx /\ [][Next]_vars

\* parse_obj runs to its return without suspension: an iteration that can
\* run does run.
SpecTerm == InitIdx /\ [][Next]_vars /\ WF_vars(Next)

\* --------------------------------------------- triangulation: the fan
\* for i in 2..face.len() { let (a, b, c) = (0, i - 1, i); ... }: the corners
\* a polygon emits from fan step i on, in emission order.
RECURSIVE fan_swapped(_, _)
fan_swapped(face, i) ==
    IF i >= Len(face) THEN <<>>
    ELSE <<face[0 + 1], face[i + 1], face[(i - 1) + 1]>> \o fan_swapped(face, i + 1)

RECURSIVE fan(_, _)
fan(face, i) ==
    IF i >= Len(face) THEN <<>>
    ELSE <<face[0 + 1], face[(i - 1) + 1], face[i + 1]>> \o fan(face, i + 1)

\* for face in faces { .. }: the corners of all polygons, in submission order.
RECURSIVE corners(_)
corners(polys) ==
    IF polys = <<>> THEN <<>>
    ELSE fan(Head(polys), 2) \o corners(Tail(polys))

\* IndexSet::insert_full(point): the slot of the point (the slot it already
\* has, or the next free one) and the set after the call. The set keeps its
\* entries in insertion order whatever the hasher's seed.
insert_full_append(points, x) ==
    [index |-> Len(points), points |-> Append(points, x)]

insert_full_one_based(points, x) ==
    IF \E k \in 1..Len(points) : points[k] = x
    THEN [index |-> CHOOSE k \in 1..Len(points) : points[k] = x, points |-> points]
    ELSE [index |-> Len(points) + 1, points |-> Append(points, x)]

insert_full(points, x) ==
    IF \E k \in 1..Len(points) : points[k] = x
    THEN [index |-> (CHOOSE k \in 1..Len(points) : points[k] = x) - 1,
          points |-> points]
    ELSE [index |-> Len(points), points |-> Append(points, x)]

\* indices.push(points.insert_full(..).0) over the corners still to come.
RECURSIVE collect_from(_, _, _)
collect_from(cs, points, indices) ==
    IF cs = <<>> THEN [indices |-> indices, points |-> points]
    ELSE LET r == insert_full(points, Head(cs))
         IN  collect_from(Tail(cs), r.points, Append(indices, r.index))

\* fn collect(indices, faces): the index buffer and the deduplicated points.
collect(polys) == collect_from(corners(polys), <<>>, <<>>)

\* ------------------------------- triangulation: turning points into vertices
Tags == {"V", "VT", "VN", "VTN"}
has_t(tag) == tag \in {"VT", "VTN"}
has_n(tag) == tag \in {"VN", "VTN"}

\* The components of a point of Faces::V / VT / VN / VTN: v, (v, t), (v, n),
\* (v, t, n).
PointV(tag, p) == p[1]
PointT(tag, p) == p[2]
PointN(tag, p) == IF tag = "VN" THEN p[2] ELSE p[3]

\* The attribute store a triangulation reads.
Data == [vertex |-> vertex, normal |-> normal, texture |-> texture]

\* The array lookups one point makes, in the order of its match arm.
lookups(tag, p) ==
    CASE tag = "V" -> <<[arr |-> "vertex", i |-> PointV(tag, p)]>>
      [] tag = "VT" -> <<[arr |-> "vertex", i |-> PointV(tag, p)],
                         [arr |-> "texture", i |-> PointT(tag, p)]>>
      [] tag = "VN" -> <<[arr |-> "vertex", i |-> PointV(tag, p)],
                         [arr |-> "normal", i |-> PointN(tag, p)]>>
      [] tag = "VTN" -> <<[arr |-> "vertex", i |-> PointV(tag, p)],
                          [arr |-> "normal", i |-> PointN(tag, p)],
                          [arr |-> "texture", i |-> PointT(tag, p)]>>

\* for point in points { .. }: every lookup of the loop, in order.
RECURSIVE all_lookups(_, _)
all_lookups(tag, points) ==
    IF points = <<>> THEN <<>>
    ELSE lookups(tag, Head(points)) \o all_lookups(tag, Tail(points))

\* slice.get(i) is None / slice[i] panics.
out_of_range(data, l) == l.i >= Len(data[l.arr])

\* The lookups of the loop that are out of range, by position in the loop.
failing(data, ls) == {k \in 1..Len(ls) : out_of_range(data, ls[k])}

first_failing(data, ls) ==
    ls[CHOOSE k \in failing(data, ls) : \A j \in failing(data, ls) : k <= j]

ERROR_OOB_VERTEX == "vertex index is out of range"
ERROR_OOB_NORMAL == "normal index is out of range"
ERROR_OOB_UV == "uv index is out of range"

ERROR_OOB(arr) ==
    CASE arr = "vertex" -> ERROR_OOB_VERTEX
      [] arr = "normal" -> ERROR_OOB_NORMAL
      [] arr = "texture" -> ERROR_OOB_UV

\* Vertices { positions, normals, uvs } of one match arm, all lookups in range.
vertices_all_present(tag, points, data) ==
    [positions |-> [k \in 1..Len(points) |-> data.vertex[PointV(tag, points[k]) + 1]],
     normals |-> Some(IF has_n(tag)
                      THEN [k \in 1..Len(points) |->
                               data.normal[PointN(tag, points[k]) + 1]]
                      ELSE <<>>),
     uvs |-> Some(IF has_t(tag)
                  THEN [k \in 1..Len(points) |->
                           data.texture[PointT(tag, points[k]) + 1]]
                  ELSE <<>>)]

vertices_first_position(tag, points, data) ==
    [positions |-> [k \in 1..Len(points) |-> data.vertex[PointV(tag, points[1]) + 1]],
     normals |-> IF has_n(tag)
                 THEN Some([k \in 1..Len(points) |->
                               data.normal[PointN(tag, points[k]) + 1]])
                 ELSE None,
     uvs |-> IF has_t(tag)
             THEN Some([k \in 1..Len(points) |->
                           data.texture[PointT(tag, points[k]) + 1]])
             ELSE None]

vertices(tag, points, data) ==
    [positions |-> [k \in 1..Len(points) |-> data.vertex[PointV(tag, points[k]) + 1]],
     normals |-> IF has_n(tag)
                 THEN Some([k \in 1..Len(points) |->
                               data.normal[PointN(tag, points[k]) + 1]])
                 ELSE None,
     uvs |-> IF has_t(tag)
             THEN Some([k \in 1..Len(points) |->
                           data.texture[PointT(tag, points[k]) + 1]])
             ELSE None]

\* A returned (Indicies, Vertices) pair.
Returned(indices, vs) ==
    [kind |-> "ok", indices |-> indices, positions |-> vs.positions,
     normals |-> vs.normals, uvs |-> vs.uvs, msg |-> ""]

\* Err(WobjError) of a `?`.
Failed(msg) == [NoResult EXCEPT !.kind = "err", !.msg = msg]

\* An indexing expression out of bounds: the call unwinds.
Panicked == [NoResult EXCEPT !.kind = "panic"]

\* ObjMesh::triangulate: .get(i).ok_or(ERROR_OOB_..)? on every lookup.
triangulate(f, data) ==
    LET c == collect(f.polys)
        ls == all_lookups(f.tag, c.points)
    IN  IF failing(data, ls) # {}
        THEN Failed(ERROR_OOB(first_failing(data, ls).arr))
        ELSE Returned(c.indices, vertices(f.tag, c.points, data))

\* Obj::trimesh: self.vertex[v], self.normal[n], self.texture[t].
trimesh(f, data) ==
    LET c == collect(f.polys)
        ls == all_lookups(f.tag, c.points)
    IN  IF failing(data, ls) # {}
        THEN Panicked
        ELSE Returned(c.indices, vertices(f.tag, c.points, data))

\* ------------------------------------------------- lib.rs: Obj::mesh
\* FacePoint { v, t, n } of a point of the given variant.
FacePoint(tag, p) ==
    [v |-> PointV(tag, p),
     t |-> IF has_t(tag) THEN Some(PointT(tag, p)) ELSE None,
     n |-> IF has_n(tag) THEN Some(PointN(tag, p)) ELSE None]

\* The Vec<Face> holding the polygons of a face topology.
FaceVec(f) ==
    [i \in 1..Len(f.polys) |->
        [k \in 1..Len(f.polys[i]) |-> FacePoint(f.tag, f.polys[i][k])]]

\* The lookups one FacePoint makes in the loop of Obj::mesh.
mesh_lookups(p, has_normals, has_texture) ==
    <<[arr |-> "vertex", i |-> p.v]>>
    \o (IF has_normals /\ p.n # None THEN <<[arr |-> "normal", i |-> p.n[1]]>> ELSE <<>>)
    \o (IF has_texture /\ p.t # None THEN <<[arr |-> "texture", i |-> p.t[1]]>> ELSE <<>>)

RECURSIVE mesh_all_lookups(_, _, _)
mesh_all_lookups(points, has_normals, has_texture) ==
    IF points = <<>> THEN <<>>
    ELSE mesh_lookups(Head(points), has_normals, has_texture)
         \o mesh_all_lookups(Tail(points), has_normals, has_texture)

\* Obj::mesh(&self, faces: &[Face]).
mesh(fs, data) ==
    LET c == collect(fs)
        count == Len(c.points)
        has_normals == count > 0 /\ c.points[1].n # None
        has_texture == count > 0 /\ c.points[1].t # None
        ls == mesh_all_lookups(c.points, has_normals, has_texture)
        withn == SelectSeq(c.points, LAMBDA p : has_normals /\ p.n # None)
        witht == SelectSeq(c.points, LAMBDA p : has_texture /\ p.t # None)
        n == [k \in 1..Len(withn) |-> data.normal[withn[k].n[1] + 1]]
        t == [k \in 1..Len(witht) |-> data.texture[witht[k].t[1] + 1]]
    IN  IF failing(data, ls) # {}
        THEN Panicked
        ELSE Returned(c.indices,
                 [positions |-> [k \in 1..count |-> data.vertex[c.points[k].v + 1]],
                  normals |-> IF Len(n) = count THEN Some(n) ELSE None,
                  uvs |-> IF Len(t) = count THEN Some(t) ELSE None])

\* ------------------------------------------- triangulation: the inputs
\* Index values 0..MaxPoints-1; an attribute array holds MaxPoints-1 or
\* MaxPoints records, so the largest index is in range for some documents
\* and out of range for others.
IndexValues == 0..(MaxPoints - 1)
ArrayLens == {MaxPoints - 1, MaxPoints}

\* The point with position index v; d picks its other indices, so that two
\* points can share v and differ in t or n.
Tup(tag, v, d) ==
    CASE tag = "V" -> <<v>>
      [] tag = "VT" -> <<v, (v + d) % MaxPoints>>
      [] tag = "VN" -> <<v, (v + d) % MaxPoints>>
      [] tag = "VTN" -> <<v, (v + d) % MaxPoints, (v + 2 * d) % MaxPoints>>

\* The polygon of len points whose position indices start at a and advance
\* by step (step 0 repeats one point, step 1 names consecutive records).
Poly(tag, len, a, step, d) ==
    [k \in 1..len |-> Tup(tag, (a + (k - 1) * step) % MaxPoints, d)]

PolyPool(tag) ==
    {Poly(tag, len, a, step, d) :
        len \in 3..MaxPoints, a \in IndexValues, step \in IndexValues, d \in {0, 1}}

\* A second polygon: a triangle of consecutive records.
SecondPool(tag) == {Poly(tag, 3, a, 1, d) : a \in IndexValues, d \in {0, 1}}

\* A polygon of two points, which the public enum Faces admits.
TwoPoints(tag) == <<Tup(tag, 0, 0), Tup(tag, 1, 0)>>

FaceInputs ==
    UNION {
        {Faces(tag, <<>>), Faces(tag, <<TwoPoints(tag)>>)}
        \cup {Faces(tag, <<p>>) : p \in PolyPool(tag)}
        \cup {Faces(tag, <<p, q>>) : p \in PolyPool(tag),
                                     q \in SecondPool(tag) \cup {TwoPoints(tag)}}
        : tag \in Tags}

\* Every polygon has the three points the parser guarantees.
AllPolygons(f) == \A i \in 1..Len(f.polys) : Len(f.polys[i]) >= 3

\* A parsed document (distinct records in every attribute array) and a face
\* topology to triangulate; the topology is the document's one submesh when
\* the parser can have produced it.
InitTri ==
    /\ \E nv \in ArrayLens : vertex = [i \in 1..nv |-> <<i, 0, 0>>]
    /\ \E nn \in ArrayLens : normal = [i \in 1..nn |-> <<0, i, 0>>]
    /\ \E nt \in ArrayLens : texture = [i \in 1..nt |-> <<i, i>>]
    /\ faces \in FaceInputs
    /\ objects = IF faces.polys # <<>> /\ AllPolygons(faces)
                 THEN <<[DefaultObject EXCEPT !.faces = FaceVec(faces)]>>
                 ELSE <<>>
    /\ current = DefaultObject
    /\ status = "ok"
    /\ last = Stmt("eof", <<>>)
    /\ fuel = 0
    /\ render = NoCalls
    /\ mtl = MtlIdle

\* One call of an entry point: only its result is written.
Call_takes_vertex(e, result) ==
    /\ status = "ok"
    /\ render[e] = NoResult
    /\ render' = [render EXCEPT ![e] = result]
    /\ vertex' = <<>>
    /\ UNCHANGED <<normal, texture, objects, current, status, last, fuel, faces, mtl>>

Call(e, result) ==
    /\ status = "ok"
    /\ render[e] = NoResult
    /\ render' = [render EXCEPT ![e] = result]
    /\ UNCHANGED <<vertex, normal, texture, objects, current, status, last, fuel, faces, mtl>>

\* obj.mesh(&faces) on a slice of parsed faces.
CallMesh ==
    /\ AllPolygons(faces)
    /\ Call("mesh", mesh(FaceVec(faces), Data))

\* obj.trimesh(&faces) on any value of the public enum.
CallTrimesh == Call("trimesh", trimesh(faces, Data))

\* mesh.triangulate() on the faces of a parsed submesh.
CallTriangulate ==
    /\ AllPolygons(faces)
    /\ Call("triangulate", triangulate(faces, Data))

NextTri ==
    \/ CallMesh
    \/ CallTrimesh
    \/ CallTriangulate

SpecTri == InitTri /\ [][NextTri]_vars

\* ------------------------------------------------ mtl/parser.rs: parse_mtl
\* (float, opt((preceded(space1, float), preceded(space1, float)))): one
\* float gives (a, a, a), three give (a, b, c); a second float without a
\* third is left unread.
parse_float3o(floats) ==
    IF Len(floats) = 0 THEN Err
    ELSE IF Len(floats) >= 3 THEN Ok(<<floats[1], floats[2], floats[3]>>, <<>>)
    ELSE Ok(<<floats[1], floats[1], floats[1]>>, <<>>)

\* The `r g b` alternative of parse_color_value.
parse_color_value(floats) ==
    LET r == parse_float3o(floats)
    IN  IF r.ok THEN Ok([space |-> "rgb", val |-> r.val], <<>>) ELSE Err

\* dec_uint
dec_uint(x) == IF x.k = "int" /\ x.i >= 0 THEN Ok(x.i, <<>>) ELSE Err

\* opt("-halo ") then float: the halo flag and the dissolve factor.
parse_d(x) ==
    IF x.value # None THEN Ok([halo |-> x.halo, dissolve |-> x.value[1]], <<>>) ELSE Err

ColorArgs == {<<1>>, <<1, 2>>, <<1, 2, 3>>, <<>>}
IllumArgs == {I(2), Junk}
DArgs == {[halo |-> h, value |-> v] : h \in BOOLEAN, v \in {Some(1), None}}

\* materials.insert(name, material) for the material being read, if any.
inserted_merging(m) ==
    IF m.name = None THEN m.materials
    ELSE [m.materials EXCEPT ![m.name[1]] =
             IF @ = None THEN Some(m.material)
             ELSE Some([f \in DOMAIN m.material |->
                           IF m.material[f] = DefaultMaterial[f] THEN @[1][f]
                           ELSE m.material[f]])]

inserted(m) ==
    IF m.name = None THEN m.materials
    ELSE [m.materials EXCEPT ![m.name[1]] = Some(m.material)]

\* What HashMap::insert returns, and parse_mtl drops: the record the name had.
evicted(m) == IF m.name = None THEN None ELSE m.materials[m.name[1]]

\* A statement of the library is read.
MtlConsume ==
    /\ mtl.status = "parsing"
    /\ mtl.fuel > 0
    /\ UNCHANGED <<vertex, normal, texture, objects, current, status, last, fuel,
                   faces, render>>

\* `?` on a failed decode, or input left unread: no map is returned.
MtlFail(stmt) ==
    mtl' = [MtlStart(mtl.fuel - 1) EXCEPT !.status = "err", !.last = stmt]

\* keyword() fails on `newmtl`: parse_material returns the material read so
\* far, parse_mtl inserts it, and parse_name starts the next one from
\* Material::default().
MtlNewmtl ==
    /\ MtlConsume
    /\ \E n \in MtlNames :
        mtl' = [mtl EXCEPT !.materials = inserted(mtl), !.evicted = evicted(mtl),
                           !.name = Some(n),
                           !.material = DefaultMaterial,
                           !.last = Stmt("newmtl", n), !.fuel = @ - 1]

\* A property statement inside a material: one arm of parse_material.
MtlProperty(kind, arg, r, fields) ==
    /\ MtlConsume
    /\ mtl.name # None
    /\ IF r.ok
       THEN mtl' = [mtl EXCEPT
                !.material = [f \in DOMAIN @ |-> IF f \in fields THEN r.val[f] ELSE @[f]],
                !.last = Stmt(kind, arg), !.fuel = @ - 1]
       ELSE MtlFail(Stmt(kind, arg))

\* b"ka" => material.ambient = Some(parse_color_value(input)?)
MtlKa ==
    \E arg \in ColorArgs :
        LET r == parse_color_value(arg)
        IN  MtlProperty("ka", arg,
                IF r.ok THEN Ok([ambient |-> Some(r.val)], <<>>) ELSE Err, {"ambient"})

\* b"illum" => material.illum = Some(dec_uint(input)?)
MtlIllum ==
    \E arg \in IllumArgs :
        LET r == dec_uint(arg)
        IN  MtlProperty("illum", arg,
                IF r.ok THEN Ok([illum |-> Some(r.val)], <<>>) ELSE Err, {"illum"})

\* b"d" => { material.halo = ..; material.dissolve = Some(float(input)?) }
MtlD ==
    \E arg \in DArgs :
        LET r == parse_d(arg)
        IN  MtlProperty("d", arg,
                IF r.ok THEN Ok([halo |-> r.val.halo, dissolve |-> Some(r.val.dissolve)], <<>>)
                ELSE Err, {"halo", "dissolve"})

\* _ => (): another keyword inside a material.
MtlUnknown ==
    /\ MtlConsume
    /\ mtl.name # None
    /\ mtl' = [mtl EXCEPT !.last = Stmt("unknown", <<>>), !.fuel = @ - 1]

\* A line on which parse_name fails after keyword() has failed or before any
\* material was named (a property statement ahead of the first `newmtl`, a
\* `newmtl` without a name, a word without a space): parse_mtl returns Ok
\* with the line unread and Parser::parse, called by Mtl::parse, reports it.
MtlNoName ==
    /\ MtlConsume
    /\ \E kind \in {"property", "newmtl", "word"} :
        /\ kind = "property" => mtl.name = None
        /\ MtlFail(Stmt("line", kind))

\* parse_name fails at the end of the input: the material being read is
\* inserted and the map is returned.
MtlEnd ==
    /\ mtl.status = "parsing"
    /\ mtl' = [mtl EXCEPT !.materials = inserted(mtl), !.evicted = evicted(mtl),
                          !.status = "ok",
                          !.last = Stmt("eof", <<>>)]
    /\ UNCHANGED <<vertex, normal, texture, objects, current, status, last, fuel,
                   faces, render>>

InitMtl ==
    /\ vertex = <<>> /\ normal = <<>> /\ texture = <<>>
    /\ objects = <<>>
    /\ current = DefaultObject
    /\ status = "ok"
    /\ last = Stmt("eof", <<>>)
    /\ fuel = 0
    /\ faces = Faces("V", <<>>)
    /\ render = NoCalls
    /\ mtl = MtlStart(MaxStmts)

NextMtl ==
    \/ MtlNewmtl
    \/ MtlKa
    \/ MtlIllum
    \/ MtlD
    \/ MtlUnknown
    \/ MtlNoName
    \/ MtlEnd

SpecMtl == InitMtl /\ [][NextMtl]_vars

\* ------------------------------------------------------------ reading aids
BreakingKinds == {"g", "s", "o", "mtllib", "usemtl"}
AttrKinds == {"v", "vt", "vn"}
Fields == {"name", "material", "mtllib", "groups", "smoothing", "faces"}

\* The field of the accumulator a breaking statement names.
FieldOf(kind) ==
    CASE kind = "g" -> "groups"
      [] kind = "s" -> "smoothing"
      [] kind = "o" -> "name"
      [] kind = "mtllib" -> "mtllib"
      [] kind = "usemtl" -> "material"

\* The value a well-formed breaking statement writes.
Written(kind, arg) ==
    CASE kind = "g" -> arg
      [] kind = "s" -> arg.i
      [] OTHER -> Some(arg)

NonZeroInt(x) == x.k = "int" /\ x.i # 0

\* A token written exactly as `v`, `v/t`, `v//n` or `v/t/n`, no index zero.
IsPointToken(tok) ==
    \/ Len(tok) = 1 /\ NonZeroInt(tok[1])
    \/ Len(tok) = 3 /\ NonZeroInt(tok[1]) /\ tok[2] = Slash /\ NonZeroInt(tok[3])
    \/ /\ Len(tok) = 4 /\ NonZeroInt(tok[1]) /\ tok[2] = Slash /\ tok[3] = Slash
       /\ NonZeroInt(tok[4])
    \/ /\ Len(tok) = 5 /\ NonZeroInt(tok[1]) /\ tok[2] = Slash
       /\ NonZeroInt(tok[3]) /\ tok[4] = Slash /\ NonZeroInt(tok[5])

\* The indices written in a point token, by kind.
WrittenV(tok) == tok[1].i
WrittenT(tok) == IF Len(tok) \in {3, 5} THEN Some(tok[3].i) ELSE None
WrittenN(tok) ==
    IF Len(tok) = 4 THEN Some(tok[4].i)
    ELSE IF Len(tok) = 5 THEN Some(tok[5].i) ELSE None

\* Which index kinds a written token / a stored point-tuple carries.
TokenShape(tok) == <<WrittenT(tok) # None, WrittenN(tok) # None>>
PointShape(p) == <<p.t # None, p.n # None>>

InRange(i, N) == (1 <= i /\ i <= N) \/ (0 - N <= i /\ i <= -1)
Resolved(i, N) == IF i > 0 THEN i - 1 ELSE N + i

\* Option-wise: a written index in range is stored resolved against N.
StoredAs(written, stored, N) ==
    (written # None /\ InRange(written[1], N)) =>
        stored = Some(Resolved(written[1], N))

AcceptedFace == status = "parsing" /\ last.kind = "f"
NewFace == current.faces[Len(current.faces)]

\* Every polygon held by the document or the accumulator, in input order.
RECURSIVE FacesOf(_)
FacesOf(objs) ==
    IF objs = <<>> THEN <<>> ELSE Head(objs).faces \o FacesOf(Tail(objs))

AllFaces == FacesOf(objects) \o current.faces

\* ------------------------------------------------------------------ C1
\* C1: after an accepted face statement, every point written as a point
\* token is stored with each of its indices resolved against the length N of
\* its own attribute sequence: i in 1..N as i - 1, -k with k in 1..N as N - k.
C1_IndexResolution ==
    AcceptedFace =>
        \A k \in 1..Len(NewFace) :
            IsPointToken(last.arg[k]) =>
                /\ StoredAs(Some(WrittenV(last.arg[k])), Some(NewFace[k].v), Len(vertex))
                /\ StoredAs(WrittenT(last.arg[k]), NewFace[k].t, Len(texture))
                /\ StoredAs(WrittenN(last.arg[k]), NewFace[k].n, Len(normal))

\* `f -1 -2 1` after two `v` records: stored [1, 0, 0].
C1_Witness ==
    /\ AcceptedFace
    /\ Len(vertex) = MaxAttr
    /\ last.arg = <<Tok("v", -1, 0, 0), Tok("v", 0 - MaxAttr, 0, 0), Tok("v", 1, 0, 0)>>
    /\ NewFace = <<[v |-> MaxAttr - 1, t |-> None, n |-> None],
                   [v |-> 0, t |-> None, n |-> None],
                   [v |-> 0, t |-> None, n |-> None]>>

\* ------------------------------------------------------------------ C2
\* C2: a negative index of an accepted face statement is stored as the
\* length of its own attribute kind, at that statement, plus the index; and
\* a later `v`, `vt` or `vn` statement changes no stored polygon.
C2_OwnLengthAtParseTime ==
    [][/\ (status' = "parsing" /\ last'.kind = "f") =>
            LET face == current'.faces[Len(current'.faces)]
            IN  \A k \in 1..Len(face) :
                    LET tok == last'.arg[k]
                    IN  (IsPointToken(tok)) =>
                            /\ (WrittenV(tok) < 0 /\ InRange(WrittenV(tok), Len(vertex)))
                                => face[k].v = Len(vertex) + WrittenV(tok)
                            /\ (WrittenT(tok) # None /\ WrittenT(tok)[1] < 0)
                                => StoredAs(WrittenT(tok), face[k].t, Len(texture))
                            /\ (WrittenN(tok) # None /\ WrittenN(tok)[1] < 0)
                                => StoredAs(WrittenN(tok), face[k].n, Len(normal))
       /\ (status' = "parsing" /\ last'.kind \in AttrKinds) =>
            /\ current'.faces = current.faces
            /\ objects' = objects]_vars

\* A record was appended after a face `-1/-1/-1 ...` that was resolved
\* against sequences of different lengths.
C2_Witness ==
    /\ status = "parsing"
    /\ last.kind \in AttrKinds
    /\ current.faces # <<>>
    /\ LET p == current.faces[1][1]
       IN  /\ p.t # None /\ p.n # None
           /\ p.v # p.t[1] /\ p.t[1] # p.n[1]
           /\ p.t[1] < Len(texture) - 1

\* ------------------------------------------------------------------ C3
HasZeroIndex(line) ==
    \E k \in 1..Len(line) : \E j \in 1..Len(line[k]) : line[k][j] = I(0)

\* C3: a face statement that writes the index 0 anywhere fails the parse.
C3_ZeroIndexFails ==
    (last.kind = "f" /\ HasZeroIndex(last.arg)) => status = "err"

\* ------------------------------------------------------------------ C4
\* C4: a face statement of fewer than 3 tokens fails the parse, and every
\* polygon of the document and of the accumulator has at least 3 points.
C4_AtLeastThreePoints ==
    /\ (last.kind = "f" /\ Len(last.arg) < 3) => status = "err"
    /\ \A k \in 1..Len(AllFaces) : Len(AllFaces[k]) >= 3

\* `f 1 1` was rejected.
C4_Witness ==
    /\ status = "err"
    /\ last.kind = "f"
    /\ Len(last.arg) = 2
    /\ \A k \in 1..2 : IsPointToken(last.arg[k])

\* ------------------------------------------------------------------ C5
\* A line all of whose tokens are point tokens of one pattern.
IsUniformLine(line) ==
    /\ Len(line) >= 3
    /\ \A k \in 1..Len(line) :
        IsPointToken(line[k]) /\ TokenShape(line[k]) = TokenShape(line[1])

\* C5: once the accumulator holds a face, a face statement written in
\* another pattern than that face's fails the parse.
C5_InconsistentShapeFails ==
    [][(/\ status = "parsing"
        /\ current.faces # <<>>
        /\ last'.kind = "f"
        /\ fuel' = fuel - 1
        /\ IsUniformLine(last'.arg)
        /\ TokenShape(last'.arg[1]) # PointShape(current.faces[1][1]))
       => status' = "err"]_vars

\* ------------------------------------------------------------------ C6
\* C6: all point-tuples of a stored polygon carry the same index kinds.
C6_SingleShapePolygons ==
    \A k \in 1..Len(AllFaces) :
        \A j \in 1..Len(AllFaces[k]) :
            PointShape(AllFaces[k][j]) = PointShape(AllFaces[k][1])

\* ------------------------------------------------------------------ C7
\* C7: a decoded breaking statement that finds faces in the accumulator
\* appends the accumulator, as it was, to the document as one submesh, and
\* leaves an accumulator with no face that carries the value it wrote.
C7_FlushOnBreaking ==
    [][(/\ status = "parsing"
        /\ current.faces # <<>>
        /\ status' = "parsing"
        /\ fuel' = fuel - 1
        /\ last'.kind \in BreakingKinds)
       => /\ objects' = Append(objects, current)
          /\ current'.faces = <<>>
          /\ current'[FieldOf(last'.kind)] = Written(last'.kind, last'.arg)]_vars

\* `o a`, faces, `o b`: the submesh is named a, the accumulator b.
C7_Witness ==
    /\ status = "parsing"
    /\ last.kind = "o"
    /\ objects # <<>>
    /\ current.faces = <<>>
    /\ objects[Len(objects)].name # None
    /\ objects[Len(objects)].name # current.name

\* ------------------------------------------------------------------ C8
\* C8: a decoded breaking statement that finds no face in the accumulator
\* leaves the submesh list and the other fields of the accumulator as they
\* were.
C8_NoFlushWhenEmpty ==
    [][(/\ status = "parsing"
        /\ current.faces = <<>>
        /\ status' = "parsing"
        /\ fuel' = fuel - 1
        /\ last'.kind \in BreakingKinds)
       => /\ objects' = objects
          /\ \A f \in Fields \ {FieldOf(last'.kind)} : current'[f] = current[f]
          /\ current'[FieldOf(last'.kind)] = Written(last'.kind, last'.arg)]_vars

\* Three breaking statements in a row, nothing emitted.
C8_Witness ==
    /\ status = "parsing"
    /\ last.kind \in BreakingKinds
    /\ objects = <<>>
    /\ current.faces = <<>>
    /\ current.name # None /\ current.groups # <<>> /\ current.material # None

\* ------------------------------------------------------------------ C9
\* C9: at the end of the input an accumulator holding a face becomes the
\* last submesh, and an accumulator holding none adds nothing.
C9_FlushAtEnd ==
    [][(status = "parsing" /\ status' = "ok") =>
          objects' = IF current.faces # <<>>
                     THEN Append(objects, current) ELSE objects]_vars

\* The input ended right after a face statement, with no breaking statement.
C9_Witness ==
    /\ status = "ok"
    /\ current.faces # <<>>
    /\ Len(objects) = 2
    /\ objects[2] = current

\* ----------------------------------------------------------------- C10
\* C10: every submesh of the document holds at least one face.
C10_NoEmptySubmesh ==
    \A k \in 1..Len(objects) : objects[k].faces # <<>>

\* A document of two submeshes was returned.
C10_Witness ==
    /\ status = "ok"
    /\ Len(objects) >= 2

\* C11: a statement with an unknown leading keyword is skipped: the three
\* attribute sequences, the completed submeshes and the accumulator (its
\* attributes and its faces) are what they were, and the loop goes on to the
\* next line.
C11_UnknownKeywordSkipped ==
    [][last'.kind = "unknown" /\ fuel' # fuel =>
        /\ UNCHANGED <<vertex, normal, texture, objects, current>>
        /\ status' = "parsing"]_vars

\* `f ..`, `g a`, `f ..`, then an unknown keyword: a submesh is complete and
\* the accumulator holds faces when the unknown statement is skipped.
C11_Witness ==
    /\ last.kind = "unknown"
    /\ status = "parsing"
    /\ objects # <<>>
    /\ current.faces # <<>>
    /\ current.groups # <<>>

\* ------------------------------------------------ triangulation claims
\* The calls that have returned a RenderMesh.
Rendered == {e \in Entries : render[e].kind = "ok"}

\* Triangles a polygon of n points yields.
TrianglesOf(n) == IF n >= 3 THEN n - 2 ELSE 0

\* Index-buffer entries the first j polygons yield.
RECURSIVE EntriesBefore(_, _)
EntriesBefore(polys, j) ==
    IF j = 0 THEN 0
    ELSE EntriesBefore(polys, j - 1) + 3 * TrianglesOf(Len(polys[j]))

\* The point the k-th index-buffer entry (k = 1, 2, ..) stands for: entry k
\* lies in polygon j, and is corner r % 3 of its triangle i = 2 + r \div 3.
CornerAt(polys, k) ==
    LET j == CHOOSE m \in 1..Len(polys) :
                 EntriesBefore(polys, m - 1) < k /\ k <= EntriesBefore(polys, m)
        p == polys[j]
        r == k - EntriesBefore(polys, j - 1) - 1
        i == 2 + (r \div 3)
    IN  CASE r % 3 = 0 -> p[0 + 1]
          [] r % 3 = 1 -> p[(i - 1) + 1]
          [] r % 3 = 2 -> p[i + 1]

\* The vertex a RenderMesh holds in slot s / the vertex a point names.
VertexInSlot(m, s) ==
    [position |-> m.positions[s + 1],
     normal |-> IF m.normals # None THEN Some(m.normals[1][s + 1]) ELSE None,
     uv |-> IF m.uvs # None THEN Some(m.uvs[1][s + 1]) ELSE None]

VertexOfPoint(tag, p) ==
    [position |-> vertex[PointV(tag, p) + 1],
     normal |-> IF has_n(tag) THEN Some(normal[PointN(tag, p) + 1]) ELSE None,
     uv |-> IF has_t(tag) THEN Some(texture[PointT(tag, p) + 1]) ELSE None]

\* C12: fan triangulation. A returned index buffer has 3 * sum(n - 2)
\* entries over the polygons in submission order, and the entries of triangle
\* i = 2..n-1 of a polygon p name the vertices of p[0], p[i-1], p[i]; the quad
\* `f 1 2 3 4` gives [0, 1, 2, 0, 2, 3].
C12_FanTriangulation ==
    \A e \in Rendered :
        /\ Len(render[e].indices) = EntriesBefore(faces.polys, Len(faces.polys))
        /\ \A k \in 1..Len(render[e].indices) :
               VertexInSlot(render[e], render[e].indices[k])
                   = VertexOfPoint(faces.tag, CornerAt(faces.polys, k))
        /\ faces = Faces("V", <<Poly("V", 4, 0, 1, 0)>>)
               => render[e].indices = <<0, 1, 2, 0, 2, 3>>

\* The quad 0 1 2 3 followed by the triangle 1 2 3, through all three entry
\* points.
C12_Witness ==
    /\ faces = Faces("V", <<Poly("V", 4, 0, 1, 0), Poly("V", 3, 1, 1, 0)>>)
    /\ Rendered = Entries
    /\ \A e \in Entries : render[e].indices = <<0, 1, 2, 0, 2, 3, 1, 2, 3>>

\* Number of index-buffer entries of the topology, and the point of each.
NumCorners == EntriesBefore(faces.polys, Len(faces.polys))
Corner(k) == CornerAt(faces.polys, k)

\* Where the point of entry k first occurs, and the distinct points first
\* seen before that.
FirstOccurrence(k) ==
    CHOOSE j \in 1..k : Corner(j) = Corner(k) /\ \A m \in 1..(j - 1) : Corner(m) # Corner(k)

SeenBefore(j) == {Corner(m) : m \in 1..(j - 1)}

\* C13: order-preserving deduplication. The slot written for a corner is the
\* number of distinct points first seen before the first occurrence of its
\* point; equal points share a slot, different points never do, and the
\* vertex arrays hold exactly one entry per distinct point.
C13_OrderPreservingDedup ==
    \A e \in Rendered :
        /\ \A k \in 1..NumCorners :
               render[e].indices[k] = Cardinality(SeenBefore(FirstOccurrence(k)))
        /\ \A k, j \in 1..NumCorners :
               (Corner(k) = Corner(j)) <=> (render[e].indices[k] = render[e].indices[j])
        /\ Len(render[e].positions) = Cardinality(SeenBefore(NumCorners + 1))
        /\ render[e].normals # None =>
               Len(render[e].normals[1]) = Cardinality(SeenBefore(NumCorners + 1))
        /\ render[e].uvs # None =>
               Len(render[e].uvs[1]) = Cardinality(SeenBefore(NumCorners + 1))

\* Two polygons that repeat points and hold two points with the same position
\* index and different texcoord indices, through all three entry points.
C13_Witness ==
    /\ Rendered = Entries
    /\ Len(faces.polys) = 2
    /\ faces.tag = "VT"
    /\ \E k, j \in 1..NumCorners :
           /\ Corner(k)[1] = Corner(j)[1]
           /\ Corner(k) # Corner(j)
           /\ render["mesh"].indices[k] # render["mesh"].indices[j]
    /\ \E k, j \in 1..NumCorners :
           /\ k + 3 <= j
           /\ Corner(k) = Corner(j)
           /\ render["triangulate"].indices[k] = render["triangulate"].indices[j]
    /\ Len(render["trimesh"].positions) < NumCorners

\* C14: in every returned RenderMesh each index-buffer value is below the
\* length of positions, and each per-kind array that is present (normals,
\* uvs) is as long as positions.
C14_RenderMeshInvariant ==
    \A e \in Rendered :
        /\ \A k \in 1..Len(render[e].indices) :
               render[e].indices[k] < Len(render[e].positions)
        /\ render[e].normals # None =>
               Len(render[e].normals[1]) = Len(render[e].positions)
        /\ render[e].uvs # None =>
               Len(render[e].uvs[1]) = Len(render[e].positions)

\* A RenderMesh with both per-kind arrays, fewer vertices than index-buffer
\* entries, and an entry naming the last vertex.
C14_Witness ==
    /\ Rendered = Entries
    /\ \A e \in Entries :
           /\ render[e].normals # None /\ render[e].uvs # None
           /\ Len(render[e].positions) >= 3
           /\ Len(render[e].positions) < Len(render[e].indices)
           /\ \E k \in 1..Len(render[e].indices) :
                  render[e].indices[k] = Len(render[e].positions) - 1

\* C15: array presence mirrors the face shape. In every returned RenderMesh
\* positions is present, normals is present exactly when the shape includes
\* normal indices and uvs exactly when it includes texcoord indices, for all
\* four shapes and every face list, the ones without a triangle corner too.
C15_ArrayPresenceMirrorsShape ==
    \A e \in Rendered :
        /\ render[e].positions \in Seq({vertex[i] : i \in 1..Len(vertex)})
        /\ (render[e].normals # None) <=> has_n(faces.tag)
        /\ (render[e].uvs # None) <=> has_t(faces.tag)

\* A deduplicated point of the topology holds a vertex, normal or uv index
\* that is not below the length of its attribute array.
HoldsIndexOutOfRange ==
    \E k \in 1..NumCorners :
        \/ PointV(faces.tag, Corner(k)) >= Len(vertex)
        \/ has_n(faces.tag) /\ PointN(faces.tag, Corner(k)) >= Len(normal)
        \/ has_t(faces.tag) /\ PointT(faces.tag, Corner(k)) >= Len(texture)

\* C16: whenever a deduplicated point holds an index out of range, the
\* triangulation returns an IndexOutOfRange error value: it neither panics
\* nor returns a RenderMesh.
C16_OutOfRangeIsAnError ==
    \A e \in Entries :
        render[e] # NoResult /\ HoldsIndexOutOfRange =>
            /\ render[e].kind = "err"
            /\ render[e].msg \in {ERROR_OOB_VERTEX, ERROR_OOB_NORMAL, ERROR_OOB_UV}
            /\ render[e].indices = <<>> /\ render[e].positions = <<>>

\* C17: in a document a successful parse returned, every index stored in
\* every polygon is an offset into its attribute array, so no triangulation
\* of a submesh can meet an index out of range.
C17_StoredIndicesInRange ==
    status = "ok" =>
        \A i \in 1..Len(objects) :
            \A j \in 1..Len(objects[i].faces) :
                \A k \in 1..Len(objects[i].faces[j]) :
                    LET p == objects[i].faces[j][k]
                    IN  /\ p.v < Len(vertex)
                        /\ p.t # None => p.t[1] < Len(texture)
                        /\ p.n # None => p.n[1] < Len(normal)

\* What an entry point returns when it runs alone on the document as it is.
Alone(e) ==
    CASE e = "mesh" -> mesh(FaceVec(faces), Data)
      [] e = "trimesh" -> trimesh(faces, Data)
      [] e = "triangulate" -> triangulate(faces, Data)

DecodeFails(stmt) ==
    CASE stmt.kind \in {"v", "vn"} -> Len(stmt.arg) < 3
      [] stmt.kind = "vt" -> stmt.arg = <<>>
      [] stmt.kind = "f" ->
            \/ Len(stmt.arg) < 3
            \/ \E k \in 1..3 : ~IsPointToken(stmt.arg[k])
      [] stmt.kind = "g" -> stmt.arg = <<>>
      [] stmt.kind = "s" -> stmt.arg = Junk
      [] stmt.kind \in {"o", "usemtl", "mtllib"} -> stmt.arg = ""
      [] OTHER -> FALSE

\* C20: every decode failure is fatal. When a recognised statement fails to
\* decode the parse returns a failure and no document, the submeshes completed
\* before it included, and no later statement is processed.
C20_DecodeFailureIsFatal ==
    /\ [][fuel' # fuel /\ DecodeFails(last') =>
            /\ status' = "err"
            /\ vertex' = <<>> /\ normal' = <<>> /\ texture' = <<>>
            /\ objects' = <<>>]_vars
    /\ [][status # "err"]_vars
    /\ [](status = "err" =>
            /\ DecodeFails(last) \/ last.kind = "line"
            /\ objects = <<>>)

\* A `g` statement without a name fails after other statements were consumed
\* and while the input still holds statements.
C20_Witness ==
    /\ status = "err"
    /\ last = Stmt("g", <<>>)
    /\ 0 < fuel /\ fuel < MaxStmts - 1

\* A blank line, and a comment line.
IsBlankLine(l) == l.head = "none"
IsCommentLine(l) == l.head = "hash"

\* C21: blank lines and comment lines are skipped wherever they stand between
\* statements: the parse goes on past such a line with the document and the
\* accumulator it had, so the input parses exactly when the input without
\* those lines does, to the same document.
C21_IgnorableLinesSkipped ==
    [][last'.kind = "line" /\ (IsBlankLine(last'.arg) \/ IsCommentLine(last'.arg)) =>
        /\ status' = "parsing"
        /\ UNCHANGED <<vertex, normal, texture, objects, current>>]_vars

Consumed(kinds) ==
    status' = "parsing" /\ fuel' = fuel - 1 /\ last'.kind \in kinds

AtEnd == status = "parsing" /\ status' = "ok"

\* C22: submeshes are the maximal face runs of the input. An accepted face
\* statement adds its polygon at the end of the run being accumulated and
\* touches no completed submesh; a breaking statement closes the run (the
\* polygons, completed and accumulated, stay in input order, and the
\* accumulator holds none afterwards); `v`, `vn`, `vt`, comment and unknown
\* statements change neither; the end of the input closes the last run.
C22_MaximalFaceRuns ==
    [][/\ Consumed({"f"}) =>
            /\ objects' = objects
            /\ Len(current'.faces) = Len(current.faces) + 1
            /\ SubSeq(current'.faces, 1, Len(current.faces)) = current.faces
       /\ Consumed(BreakingKinds) =>
            /\ FacesOf(objects') = FacesOf(objects) \o current.faces
            /\ SubSeq(objects', 1, Len(objects)) = objects
            /\ Len(objects') = Len(objects) + (IF current.faces # <<>> THEN 1 ELSE 0)
            /\ current'.faces = <<>>
       /\ Consumed(AttrKinds \cup {"unknown", "line"}) =>
            /\ objects' = objects
            /\ current'.faces = current.faces
       /\ AtEnd =>
            /\ FacesOf(objects') = FacesOf(objects) \o current.faces
            /\ SubSeq(objects', 1, Len(objects)) = objects
            /\ Len(objects') = Len(objects) + (IF current.faces # <<>> THEN 1 ELSE 0)]_vars

\* Two different faces, a breaking statement, a third face, end of input:
\* two submeshes, the first with the two faces in input order.
C22_Witness ==
    /\ status = "ok"
    /\ Len(objects) = 2
    /\ Len(objects[1].faces) = 2
    /\ objects[1].faces[1] # objects[1].faces[2]
    /\ Len(objects[2].faces) = 1

AttrFields == {"name", "material", "mtllib", "groups", "smoothing"}

\* C23: a breaking statement changes only its own attribute. The other four
\* attributes of the accumulator keep their values across the statement and
\* across a flush, the flushed submesh carries the accumulator's values, and
\* no other statement changes an attribute: so a submesh carries, per kind,
\* the value of the latest statement of that kind before its first face, or
\* the default.
C23_OnlyOwnAttribute ==
    [][/\ Consumed(BreakingKinds) =>
            /\ \A f \in AttrFields \ {FieldOf(last'.kind)} : current'[f] = current[f]
            /\ current.faces # <<>> =>
                   \A f \in AttrFields : objects'[Len(objects')][f] = current[f]
       /\ Consumed(AttrKinds \cup {"f", "unknown", "line"}) =>
            \A f \in AttrFields : current'[f] = current[f]
       /\ AtEnd /\ current.faces # <<>> =>
            \A f \in AttrFields : objects'[Len(objects')][f] = current[f]
       /\ last.kind = "start" => \A f \in AttrFields : current[f] = DefaultObject[f]]_vars

\* `o a`, a face, `g a`, `s 1`: the submesh is named a and has no group, the
\* accumulator keeps the name and the group across `s 1`.
C23_Witness ==
    /\ status = "parsing"
    /\ last.kind = "s"
    /\ current.smoothing = 1
    /\ current.name = Some("a")
    /\ current.groups = <<"a">>
    /\ Len(objects) = 1
    /\ objects[1].name = Some("a")
    /\ objects[1].groups = <<>>

\* seq' is seq with one record appended.
OneAppended(seq, seq2) ==
    Len(seq2) = Len(seq) + 1 /\ SubSeq(seq2, 1, Len(seq)) = seq

\* C24: the attribute store is append-only and its sequences are
\* independent. A successful `v`, `vn` or `vt` statement appends one record
\* to its own sequence and leaves the other two, the accumulator and the
\* submeshes unchanged; face, breaking, unknown and comment statements, and
\* the end of the input, change no attribute sequence.
C24_AppendOnlyStore ==
    [][/\ Consumed({"v"}) =>
            /\ OneAppended(vertex, vertex')
            /\ UNCHANGED <<normal, texture, objects, current>>
       /\ Consumed({"vn"}) =>
            /\ OneAppended(normal, normal')
            /\ UNCHANGED <<vertex, texture, objects, current>>
       /\ Consumed({"vt"}) =>
            /\ OneAppended(texture, texture')
            /\ UNCHANGED <<vertex, normal, objects, current>>
       /\ Consumed(BreakingKinds \cup {"f", "unknown", "line"}) \/ AtEnd =>
            UNCHANGED <<vertex, normal, texture>>]_vars

\* A face, then one record of each kind.
C24_Witness ==
    /\ status = "parsing"
    /\ last.kind = "vt"
    /\ Len(vertex) = 1 /\ Len(normal) = 1 /\ Len(texture) = 1
    /\ current.faces # <<>>

\* C25: materialisation preserves every corner's attributes. In a returned
\* RenderMesh, for the k-th emitted corner with point (v[, t][, n]),
\* positions[indices[k]] is the document's vertex[v], uvs[indices[k]] is
\* texture[t] when uvs are present, normals[indices[k]] is normal[n] when
\* normals are present.
C25_MaterialisationPreservesCorners ==
    \A e \in Rendered :
        \A k \in 1..NumCorners :
            LET slot == render[e].indices[k] + 1
            IN  /\ render[e].positions[slot] = vertex[PointV(faces.tag, Corner(k)) + 1]
                /\ render[e].uvs # None =>
                       render[e].uvs[1][slot] = texture[PointT(faces.tag, Corner(k)) + 1]
                /\ render[e].normals # None =>
                       render[e].normals[1][slot] = normal[PointN(faces.tag, Corner(k)) + 1]

\* A quad and a triangle with all three index kinds whose points use four
\* position records, returned by all three entry points.
C25_Witness ==
    /\ Rendered = Entries
    /\ faces.tag = "VTN"
    /\ Len(faces.polys) = 2
    /\ \A e \in Entries :
           /\ {render[e].positions[s] : s \in 1..Len(render[e].positions)}
                  = {vertex[i] : i \in 1..Len(vertex)}
           /\ Len(render[e].positions) > Len(vertex)
           /\ Len(vertex) = MaxPoints

\* C27: the polygon stored for an accepted face statement has one point per
\* space-separated token of the line, in the same order: no token is
\* dropped, so a line whose fourth or later token is not a point is not
\* accepted as a shorter polygon.
C27_OnePointPerToken ==
    AcceptedFace => Len(NewFace) = Len(last.arg)

\* A written index -k with k above the length N of its attribute kind.
BelowStart(written, N) == written # None /\ written[1] < 0 /\ 0 - written[1] > N

\* C28: a negative index -k whose magnitude exceeds the current length of
\* its attribute kind neither fails the parse nor wraps around: it is stored
\* as absolute index 0, for every length, 0 included.
C28_NegativeIndexSaturates ==
    [][last'.kind = "f" /\ fuel' # fuel =>
        /\ (Len(last'.arg) >= 3 /\ \A k \in 1..Len(last'.arg) : IsPointToken(last'.arg[k]))
               => status' = "parsing"
        /\ status' = "parsing" =>
               LET face == current'.faces[Len(current'.faces)]
               IN  \A k \in 1..Len(face) :
                       LET tok == last'.arg[k]
                       IN  IsPointToken(tok) =>
                               /\ BelowStart(Some(WrittenV(tok)), Len(vertex)) => face[k].v = 0
                               /\ BelowStart(WrittenT(tok), Len(texture)) => face[k].t = Some(0)
                               /\ BelowStart(WrittenN(tok), Len(normal)) => face[k].n = Some(0)]_vars

\* `f 1/-1/-2 ..` with one position record, no texcoord and one normal
\* record: texcoord -1 and normal -2 are both stored as 0.
C28_Witness ==
    /\ AcceptedFace
    /\ Len(vertex) = 1 /\ Len(texture) = 0 /\ Len(normal) = 1
    /\ \E k \in 1..Len(NewFace) :
           /\ last.arg[k] = Tok("vtn", 1, -1, 0 - MaxIdx)
           /\ NewFace[k] = [v |-> 0, t |-> Some(0), n |-> Some(0)]

\* C29: parsing terminates on every finite input. Every iteration of the
\* loop that goes on has consumed input, so what remains strictly shrinks,
\* and the parse ends with a document or with a failure.
C29_ParsingTerminates ==
    /\ [][status = "parsing" /\ status' = "parsing" => fuel' < fuel]_vars
    /\ <>(status \in {"ok", "err"})

\* The whole input was consumed statement by statement and the parse
\* returned a document with a submesh.
C29_Witness ==
    /\ status = "ok"
    /\ fuel = 0
    /\ objects # <<>>
    /\ vertex # <<>>

\* The fields of a material record a property statement of the given kind
\* writes.
OwnFields(kind) ==
    IF kind = "ka" THEN {"ambient"}
    ELSE IF kind = "illum" THEN {"illum"}
    ELSE IF kind = "d" THEN {"halo", "dissolve"}
    ELSE {}

\* C30: every `newmtl <name>` statement starts a record equal to
\* Material::default() under that name; a property statement that is accepted
\* changes only the fields it names of the record being read and leaves the
\* map, the name and the other fields alone; when the record is closed, by the
\* next `newmtl` or the end of the input, the map holds exactly that record
\* under its name, whatever the name held before, and every other entry is
\* unchanged, so the map has an entry for a name exactly when the name was
\* defined.
C30_MaterialLibraryParsing ==
    [][mtl.status = "parsing" /\ mtl'.status # "err" /\ mtl' # mtl =>
        /\ mtl'.last.kind = "newmtl" =>
            /\ mtl'.name = Some(mtl'.last.arg)
            /\ mtl'.material = DefaultMaterial
        /\ mtl'.last.kind \in {"newmtl", "eof"} =>
            \A n \in MtlNames :
                mtl'.materials[n] =
                    IF mtl.name = Some(n) THEN Some(mtl.material) ELSE mtl.materials[n]
        /\ mtl'.last.kind \in {"ka", "illum", "d", "unknown"} =>
            /\ mtl'.materials = mtl.materials
            /\ mtl'.name = mtl.name /\ mtl.name # None
            /\ \A f \in DOMAIN DefaultMaterial \ OwnFields(mtl'.last.kind) :
                   mtl'.material[f] = mtl.material[f]
        /\ mtl'.last.kind = "eof" <=> mtl'.status = "ok"
    ]_vars

\* A library that defines a name twice, the first time with an ambient colour
\* and the second time without, has been read to its end: the first record
\* was evicted and the entry has no ambient colour.
C30_Witness ==
    /\ mtl.status = "ok"
    /\ \E n \in MtlNames :
        /\ mtl.name = Some(n)
        /\ mtl.evicted # None
        /\ mtl.evicted[1].ambient # None
        /\ mtl.materials[n] # None
        /\ mtl.materials[n][1].ambient = None
        /\ mtl.materials[n][1].illum # None

====
